---- MODULE Spec2Model ----
(***************************************************************************)
(* Model of 7550a_stream.c: manual software flow control for the HP 7550A *)
(* plotter.  The host program (main, serial_write, read_dec, read_asc,    *)
(* init_serial) is modelled step by step; the plotter is modelled as a    *)
(* receive buffer of capacity devCap that drains at an arbitrary rate and *)
(* answers every query, in order, on the serial receive line rx.          *)
(*                                                                         *)
(* Device control commands (ESC . x) are handled by the plotter on        *)
(* arrival and do not occupy its receive buffer; only data bytes do.      *)
(* Responses are bytes; read_dec decodes them the way atoi does.          *)
(* Responses with a leading minus sign are not generated (the conversion  *)
(* of a negative int to size_t needs 64-bit arithmetic).                  *)
(***************************************************************************)
EXTENDS Integers, Sequences, FiniteSets, TLC

(* ------------------------------ bounds -------------------------------- *)
\* largest plotter buffer capacity drawn at Init
MaxCap == 4
\* largest input length drawn at Init
MaxLen == 4
\* the poll counter of one chunk iteration saturates here
MaxPolls == 2
\* faults of the line in one run: failed or short writes, damaged responses
MaxFaults == 1
\* data writes recorded by one run (only a run with chunksize 0 gets there)
MaxWrites == MaxLen + 2
\* a lone field read is fed the numbers 0..MaxK (and 9999)
MaxK == 12
\* the longest field a lone field read is fed has READBUFSIZE + MaxOver bytes
MaxOver == 1
\* the counter of failed read(2) calls saturates here
MaxFailedReads == 2

(* ---------------------------- program constants ----------------------- *)
READBUFSIZE == 64
DEVCOM_TERM == "\r"
EXIT_SUCCESS == 0
EXIT_FAILURE == 1

(* ------------------------------ helpers ------------------------------- *)
Min(a, b) == IF a < b THEN a ELSE b

Digits == <<"0", "1", "2", "3", "4", "5", "6", "7", "8", "9">>

IsDigit(c) == \E i \in 1..10 : Digits[i] = c

DigitVal(c) == (CHOOSE i \in 1..10 : Digits[i] = c) - 1

IsSpace(c) == c \in {" ", "\t", "\n"}

\* the DEC field the plotter sends for the number k: its decimal digits
RECURSIVE Dec(_)
Dec(k) == IF k < 10 THEN <<Digits[k + 1]>>
          ELSE Dec(k \div 10) \o <<Digits[(k % 10) + 1]>>

\* value of the longest prefix of digits of s, continuing from acc
RECURSIVE AtoiDigits(_, _)
AtoiDigits(s, acc) ==
    IF s = <<>> \/ ~IsDigit(Head(s)) THEN acc
    ELSE AtoiDigits(Tail(s), acc * 10 + DigitVal(Head(s)))

RECURSIVE SkipSpace(_)
SkipSpace(s) == IF s # <<>> /\ IsSpace(Head(s)) THEN SkipSpace(Tail(s)) ELSE s

\* atoi(3): skip white space, an optional sign, then the leading digits;
\* 0 when there are none
\* s without its leading zeros, which add nothing to a value that starts at 0
DropZeros(s) ==
    LET z == Cardinality({i \in 1..Len(s) : \A j \in 1..i : s[j] = "0"})
    IN  SubSeq(s, z + 1, Len(s))

Atoi(s) ==
    LET t == SkipSpace(s) IN
    IF t # <<>> /\ Head(t) = "-" THEN 0 - AtoiDigits(DropZeros(Tail(t)), 0)
    ELSE IF t # <<>> /\ Head(t) = "+" THEN AtoiDigits(DropZeros(Tail(t)), 0)
    ELSE AtoiDigits(DropZeros(t), 0)

\* a well-formed DEC field: one or more digits, nothing else
IsDecimal(s) == s # <<>> /\ \A i \in 1..Len(s) : IsDigit(s[i])

\* responses damaged on the line: non-digit bytes before the terminator
Garbled == { <<"x">>, <<"2", "x">> }

\* what the plotter may put on the line to report the number k
Responses(k) == {Dec(k)} \cup Garbled

\* the identification string of the plotter (an ASC field)
IDENT == <<"7", "5">>

(* ------------------------------- state -------------------------------- *)
VARIABLES
    pc,          \* position of main
    filename,    \* "NULL" (use stdin) or "file" (option -f)
    verbose,     \* option -v
    input,       \* the FILE: "unopened", "open" or "closed"
    serial,      \* the serial descriptor: "unopened", "open" or "closed"
    bufsize, chunksize, fbufsize, buffree,
    ident,       \* "uninit", or the string read_asc returned
    buffer,      \* the chunk buffer
    dbuf,        \* dec_buffer / asc_buffer of the field read in progress
    exit_status, \* -1 while running
    diag,        \* "partial write to port" has been printed
    file,        \* the bytes of the input
    fpos,        \* read position in the input
    eof,         \* end-of-file indicator of the input stream
    devCap,      \* the plotter: capacity of its receive buffer
    devUsed,     \* the plotter: bytes in its receive buffer
    rx,          \* bytes sent by the plotter and not yet read by the host
    rxTags,      \* history: for each response in rx, the query it answers
    lastTag,     \* history: the query answered by the last field read
    lastField,   \* history: the bytes of the last field read
    lastRet,     \* history: the value the last read_dec returned
    polls,       \* history: delay-query-read rounds of this chunk iteration
    delayed,     \* history: a pacing delay has passed since the last query
    sent,        \* history: the byte counts of the data writes
    written,     \* history: the bytes of the data writes
    lastFree,    \* history: free space of the plotter at the last data write
    events,      \* history: commands written (polls excepted), the capacity
                 \* read ("cap") and the data writes ("D"), oldest first
    capRead,     \* history: the capacity response has been read
    garbled,     \* history: the plotter has sent a damaged response
    faults,      \* history: faults of the line so far
    storeIdx,    \* history: index of the last store into dec_buffer or
                 \* asc_buffer, -1 before the first
    unreported,  \* history: a write was accepted short and no diagnostic
                 \* was printed for it
    cmdShort,    \* history: write(2) of a command returned another count
                 \* than the length of the command
    released,    \* history: what free(ident) was applied to: "none" (not
                 \* called yet), "assigned" or "unassigned"
    chan,        \* the serial line: "up", or "down" (read(2) returns <= 0)
    failedReads, \* history: read(2) calls of the field read in progress
                 \* that returned <= 0
    fed          \* history: the bytes a lone field read was started on

progVars == <<pc, filename, verbose, input, serial, bufsize, chunksize,
              fbufsize, buffree, ident, buffer, dbuf, exit_status, diag>>
envVars  == <<file, fpos, eof, devCap, devUsed, rx>>
histVars == <<rxTags, lastTag, lastField, lastRet, polls, delayed, sent,
              written, lastFree, events, capRead, garbled, faults>>
auxVars  == <<storeIdx, unreported, cmdShort, released, chan, failedReads,
              fed>>
vars == <<progVars, envVars, histVars, auxVars>>

NoTag == [cmd |-> "none", fresh |-> FALSE, genuine |-> FALSE, latest |-> FALSE]

Init ==
    /\ pc = "open_file"
    /\ filename \in {"NULL", "file"}
    /\ verbose \in BOOLEAN
    /\ input = "unopened"
    /\ serial = "unopened"
    /\ bufsize = 0 /\ chunksize = 0 /\ fbufsize = 0 /\ buffree = 0
    /\ ident = "uninit"
    /\ buffer = <<>>
    /\ dbuf = <<>>
    /\ exit_status = -1
    /\ diag = FALSE
    /\ \E L \in 0..MaxLen : file = [i \in 1..L |-> i]
    /\ fpos = 0
    /\ eof = FALSE
    /\ devCap \in 0..MaxCap
    /\ devUsed = 0
    /\ rx = <<>>
    /\ rxTags = <<>>
    /\ lastTag = NoTag
    /\ lastField = <<>>
    /\ lastRet = 0
    /\ polls = 0
    /\ delayed = FALSE
    /\ sent = <<>>
    /\ written = <<>>
    /\ lastFree = 0
    /\ events = <<>>
    /\ capRead = FALSE
    /\ garbled = FALSE
    /\ faults = 0
    /\ storeIdx = -1
    /\ unreported = FALSE
    /\ cmdShort = FALSE
    /\ released = "none"
    /\ chan = "up"
    /\ failedReads = 0
    /\ fed = <<>>

(* ------------------------------ the plotter --------------------------- *)
\* the plotter puts the response r to the query q on the line
Respond(q, r, good) ==
    /\ rx' = rx \o r \o <<DEVCOM_TERM>>
    /\ rxTags' = Append(rxTags, [cmd |-> q, fresh |-> TRUE, genuine |-> good])
    /\ good \/ faults < MaxFaults
    /\ garbled' = (garbled \/ ~good)
    /\ faults' = IF good THEN faults ELSE faults + 1

\* the plotter receives the device control command ESC . m
DeviceCommand(m) ==
    CASE m = "L" -> /\ \E r \in Responses(devCap) : Respond(m, r, r = Dec(devCap))
                    /\ UNCHANGED devUsed
      [] m = "B" -> /\ \E r \in Responses(devCap - devUsed) :
                           Respond(m, r, r = Dec(devCap - devUsed))
                    /\ UNCHANGED devUsed
      [] m = "A" -> /\ Respond(m, IDENT, TRUE)
                    /\ UNCHANGED devUsed
      [] m = "R" -> /\ devUsed' = 0
                    /\ UNCHANGED <<rx, rxTags, garbled, faults>>
      [] OTHER   -> UNCHANGED <<devUsed, rx, rxTags, garbled, faults>>

\* the plotter takes one byte out of its receive buffer
Drain ==
    /\ devUsed > 0
    /\ devUsed' = devUsed - 1
    /\ UNCHANGED <<progVars, file, fpos, eof, devCap, rx, histVars, auxVars>>

(* ------------------------------ the host ------------------------------ *)
\* strlen of a command: the prefix ESC . and the mnemonic
CommandLen == 3

\* a diagnostic printed only when write(2) reports an error
PartialWriteOnError(len, ret) == ret < 0

\* serial_write, line 84: write(fd, s, len) != len
PartialWrite(len, ret) == ret # len

\* serial_write: write(2) takes the whole command, or it returns 0 or -1
\* and the plotter gets nothing; the diagnostic is printed when the count
\* returned is not the length; the program goes on either way
serial_write(m) ==
    \E ret \in {-1, 0, CommandLen} :
        /\ diag' = (diag \/ PartialWrite(CommandLen, ret))
        /\ cmdShort' = (cmdShort \/ ret # CommandLen)
        /\ IF ret = CommandLen
           THEN DeviceCommand(m)
           ELSE /\ faults < MaxFaults
                /\ faults' = faults + 1
                /\ UNCHANGED <<devUsed, rx, rxTags, garbled>>

\* a statement of main that is one serial_write of a command
Command(at, m, next) ==
    /\ pc = at
    /\ serial_write(m)
    /\ pc' = next
    /\ events' = Append(events, m)
    /\ UNCHANGED <<filename, verbose, input, serial, bufsize, chunksize,
                   fbufsize, buffree, ident, dbuf, exit_status>>
    /\ UNCHANGED <<file, fpos, eof, devCap>>
    /\ UNCHANGED <<lastTag, lastField, lastRet, polls, delayed, sent,
                   written, lastFree, capRead>>
    /\ UNCHANGED <<storeIdx, unreported, released, chan, failedReads, fed>>

\* main, lines 204-215: stdin, or fopen of the named file
OpenFile ==
    /\ pc = "open_file"
    /\ \/ /\ filename = "NULL"
          /\ input' = "open" /\ pc' = "open_port" /\ UNCHANGED exit_status
       \/ /\ filename # "NULL"
          /\ \E opened \in BOOLEAN :
                IF opened
                THEN input' = "open" /\ pc' = "open_port" /\ UNCHANGED exit_status
                ELSE input' = input /\ pc' = "exit" /\ exit_status' = EXIT_FAILURE
    /\ UNCHANGED <<filename, verbose, serial, bufsize, chunksize, fbufsize,
                   buffree, ident, buffer, dbuf, diag>>
    /\ UNCHANGED <<envVars, histVars, auxVars>>

\* init_serial: "open" (fd >= 0 returned), "noopen" (open fails),
\* "noconf" (tcsetattr fails, the descriptor is closed again)
init_serial(outcome) ==
    CASE outcome = "open"   -> serial' = "open"
      [] outcome = "noopen" -> serial' = serial
      [] outcome = "noconf" -> serial' = "closed"

\* the test passed by a descriptor whose configuration failed
PortUnusableNoOpen(outcome) == outcome = "noopen"

\* main, line 222: serial_fd < 0; init_serial returns a negative value
\* when open fails (line 47) and when tcsetattr fails (line 73)
PortUnusable(outcome) == outcome # "open"

\* main, lines 219-225
OpenPort ==
    /\ pc = "open_port"
    /\ \E outcome \in {"open", "noopen", "noconf"} :
        /\ init_serial(outcome)
        /\ IF ~PortUnusable(outcome)
           THEN pc' = "power_on" /\ UNCHANGED <<input, exit_status>>
           ELSE /\ input' = IF filename # "NULL" THEN "closed" ELSE input
                /\ pc' = "exit"
                /\ exit_status' = EXIT_FAILURE
    /\ UNCHANGED <<filename, verbose, bufsize, chunksize, fbufsize,
                   buffree, ident, buffer, dbuf, diag>>
    /\ UNCHANGED <<envVars, histVars, auxVars>>

\* the initialisation with reset and plotter-on swapped
InitSequenceSwapped == <<"R", "(", "L">>

\* main, lines 229-231: plotter on, reset, output buffer size
InitSequence == <<"(", "R", "L">>

PowerOn == Command("power_on", InitSequence[1], "reset") /\ UNCHANGED buffer

Reset == Command("reset", InitSequence[2], "query_cap") /\ UNCHANGED buffer

QueryCap == Command("query_cap", InitSequence[3], "read_cap") /\ UNCHANGED buffer

IdentQuery == Command("ident_query", "A", "read_ident") /\ UNCHANGED buffer

ExtraQuery1 == Command("extra_L1", "L", "extra_L2") /\ UNCHANGED buffer

ExtraQuery2 == Command("extra_L2", "L", "begin_data") /\ UNCHANGED buffer

\* main, lines 249-253: begin-data, then malloc(chunksize)
BeginData ==
    /\ Command("begin_data", "U", "loop_test")
    /\ buffer' = [i \in 1..chunksize |-> 0]

PowerOff == Command("power_off", ")", "cleanup") /\ UNCHANGED buffer

(* ---------------------------- field decoder --------------------------- *)
\* read_dec / read_asc, one turn of the while loop with a byte that is not
\* the terminator: the byte is stored in the accumulation buffer
FieldByte ==
    /\ chan = "up"
    /\ rx # <<>>
    /\ Head(rx) # DEVCOM_TERM
    /\ rx' = Tail(rx)
    /\ dbuf' = Append(dbuf, Head(rx))
    /\ storeIdx' = Len(dbuf)

\* read_dec / read_asc, the turn that reads the terminator: the field ends
FieldEnd ==
    /\ chan = "up"
    /\ rx # <<>>
    /\ Head(rx) = DEVCOM_TERM
    /\ rx' = Tail(rx)
    /\ dbuf' = <<>>
    /\ storeIdx' = Len(dbuf)
    /\ lastField' = dbuf
    /\ lastTag' = [cmd |-> Head(rxTags).cmd, fresh |-> Head(rxTags).fresh,
                   genuine |-> Head(rxTags).genuine, latest |-> Len(rxTags) = 1]
    /\ rxTags' = Tail(rxTags)

\* where the program is after a store at index Len(dbuf) of the
\* accumulation buffer, which has READBUFSIZE bytes: a store past its end
\* is undefined, the process may die there or go on
AfterStore(next) ==
    \E dies \in {FALSE, Len(dbuf) >= READBUFSIZE} :
        pc' = IF dies THEN "crashed" ELSE next

\* the value returned when the terminating NUL lands one byte early
read_decEarlyNul(buf) == Atoi(SubSeq(buf, 1, Len(buf) - 1))

\* the value read_dec returns for the accumulated bytes (line 107)
read_dec(buf) == Atoi(buf)

\* the chunk size without the halving
ChunkSizeWhole(size) == size

\* main, line 234
ChunkSize(size) == size \div 2

\* main, lines 232-237: bufsize = read_dec(serial_fd); chunksize = bufsize / 2
ReadCap ==
    /\ pc = "read_cap"
    /\ \/ /\ FieldByte
          /\ AfterStore(pc)
          /\ UNCHANGED <<bufsize, chunksize, lastField, lastTag, rxTags,
                         lastRet, capRead, events>>
       \/ /\ FieldEnd
          /\ bufsize' = read_dec(dbuf)
          /\ chunksize' = ChunkSize(bufsize')
          /\ lastRet' = read_dec(dbuf)
          /\ capRead' = TRUE
          /\ events' = Append(events, "cap")
          /\ AfterStore(IF verbose THEN "ident_query" ELSE "extra_L1")
    /\ UNCHANGED <<filename, verbose, input, serial, fbufsize, buffree, ident,
                   buffer, exit_status, diag>>
    /\ UNCHANGED <<file, fpos, eof, devCap, devUsed>>
    /\ UNCHANGED <<polls, delayed, sent, written, lastFree, garbled,
                   faults>>
    /\ UNCHANGED <<unreported, cmdShort, released, chan, failedReads, fed>>

\* main, lines 241-242: ident = read_asc(serial_fd)
ReadIdent ==
    /\ pc = "read_ident"
    /\ \/ /\ FieldByte
          /\ AfterStore(pc)
          /\ UNCHANGED <<ident, lastField, lastTag, rxTags>>
       \/ /\ FieldEnd
          /\ ident' = dbuf
          /\ AfterStore("extra_L1")
    /\ UNCHANGED <<filename, verbose, input, serial, bufsize, chunksize,
                   fbufsize, buffree, buffer, exit_status, diag>>
    /\ UNCHANGED <<file, fpos, eof, devCap, devUsed>>
    /\ UNCHANGED <<lastRet, polls, delayed, sent, written, lastFree,
                   events, capRead, garbled, faults>>
    /\ UNCHANGED <<unreported, cmdShort, released, chan, failedReads, fed>>

(* ----------------------------- the spooler ---------------------------- *)
\* main, line 260: while(!feof(input))
LoopTest ==
    /\ pc = "loop_test"
    /\ pc' = IF eof THEN "power_off" ELSE "fread"
    /\ UNCHANGED <<filename, verbose, input, serial, bufsize, chunksize,
                   fbufsize, buffree, ident, buffer, dbuf, exit_status, diag>>
    /\ UNCHANGED <<envVars, histVars, auxVars>>

\* fread(buffer, 1, count, input) with avail bytes left: the items it returns
FreadCount(count, avail) == Min(count, avail)

\* main, lines 261-263: a chunk is read, the free-space variable is reset.
\* fread sets the end-of-file indicator when it runs out of input before
\* count items are read; it reads nothing when count is 0.
Fread ==
    /\ pc = "fread"
    /\ LET n == FreadCount(chunksize, Len(file) - fpos) IN
        /\ fbufsize' = n
        /\ buffer' = [i \in 1..chunksize |->
                        IF i <= n THEN file[fpos + i] ELSE buffer[i]]
        /\ fpos' = fpos + n
        /\ eof' = (eof \/ n < chunksize)
    /\ buffree' = 0
    /\ polls' = 0
    /\ rxTags' = [i \in 1..Len(rxTags) |-> [rxTags[i] EXCEPT !.fresh = FALSE]]
    /\ pc' = "poll_test"
    /\ UNCHANGED <<filename, verbose, input, serial, bufsize, chunksize,
                   ident, dbuf, exit_status, diag>>
    /\ UNCHANGED <<file, devCap, devUsed, rx>>
    /\ UNCHANGED <<lastTag, lastField, lastRet, delayed, sent, written,
                   lastFree, events, capRead, garbled, faults>>
    /\ UNCHANGED auxVars

\* the poll loop entered only while the reading is below the chunk
KeepPollingBelow(free, n) == free < n

\* main, line 264: the condition of the poll loop
KeepPolling(free, n) == free <= n

PollTest ==
    /\ pc = "poll_test"
    /\ pc' = IF KeepPolling(buffree, fbufsize) THEN "poll_delay" ELSE "write_chunk"
    /\ UNCHANGED <<filename, verbose, input, serial, bufsize, chunksize,
                   fbufsize, buffree, ident, buffer, dbuf, exit_status, diag>>
    /\ UNCHANGED <<envVars, histVars, auxVars>>

\* main, line 265: usleep(QUERY_DELAY)
PollDelay ==
    /\ pc = "poll_delay"
    /\ pc' = "poll_query"
    /\ delayed' = TRUE
    /\ UNCHANGED <<filename, verbose, input, serial, bufsize, chunksize,
                   fbufsize, buffree, ident, buffer, dbuf, exit_status, diag>>
    /\ UNCHANGED envVars
    /\ UNCHANGED <<rxTags, lastTag, lastField, lastRet, polls, sent, written,
                   lastFree, events, capRead, garbled, faults>>
    /\ UNCHANGED auxVars

\* main, line 266: the buffer query ESC.B
PollQuery ==
    /\ pc = "poll_query"
    /\ serial_write("B")
    /\ pc' = "poll_read"
    /\ delayed' = FALSE
    /\ UNCHANGED <<filename, verbose, input, serial, bufsize, chunksize,
                   fbufsize, buffree, ident, buffer, dbuf, exit_status>>
    /\ UNCHANGED <<file, fpos, eof, devCap>>
    /\ UNCHANGED <<lastTag, lastField, lastRet, polls, sent, written,
                   lastFree, events, capRead>>
    /\ UNCHANGED <<storeIdx, unreported, released, chan, failedReads, fed>>

\* main, line 267: buffree = read_dec(serial_fd)
PollRead ==
    /\ pc = "poll_read"
    /\ \/ /\ FieldByte
          /\ AfterStore(pc)
          /\ UNCHANGED <<buffree, lastField, lastTag, rxTags, lastRet, polls>>
       \/ /\ FieldEnd
          /\ buffree' = read_dec(dbuf)
          /\ lastRet' = read_dec(dbuf)
          /\ polls' = Min(polls + 1, MaxPolls)
          /\ AfterStore("poll_test")
    /\ UNCHANGED <<filename, verbose, input, serial, bufsize, chunksize,
                   fbufsize, ident, buffer, exit_status, diag>>
    /\ UNCHANGED <<file, fpos, eof, devCap, devUsed>>
    /\ UNCHANGED <<delayed, sent, written, lastFree, events,
                   capRead, garbled, faults>>
    /\ UNCHANGED <<unreported, cmdShort, released, chan, failedReads, fed>>

\* the data write of a whole buffer, whatever fread returned
WriteLenWhole(n, chunk) == chunk

\* main, line 275: the byte count of the data write
WriteLen(n, chunk) == n

\* main, line 275: write(serial_fd, buffer, fbufsize).  The channel accepts
\* k of the bytes; the plotter stores what fits in its receive buffer.
WriteChunk ==
    /\ pc = "write_chunk"
    /\ Len(sent) < MaxWrites
    /\ LET n == WriteLen(fbufsize, chunksize) IN
        /\ sent' = Append(sent, n)
        /\ written' = written \o SubSeq(buffer, 1, n)
        /\ lastFree' = devCap - devUsed
        /\ \E k \in 0..n :
            /\ k = n \/ faults < MaxFaults
            /\ faults' = IF k = n THEN faults ELSE faults + 1
            /\ unreported' = (unreported \/ k # n)
            /\ devUsed' = Min(devCap, devUsed + k)
    /\ events' = Append(events, "D")
    /\ pc' = "loop_test"
    /\ UNCHANGED <<filename, verbose, input, serial, bufsize, chunksize,
                   fbufsize, buffree, ident, buffer, dbuf, exit_status, diag>>
    /\ UNCHANGED <<file, fpos, eof, devCap, rx>>
    /\ UNCHANGED <<rxTags, lastTag, lastField, lastRet, polls, delayed,
                   capRead, garbled>>
    /\ UNCHANGED <<storeIdx, cmdShort, released, chan, failedReads, fed>>

\* main, lines 284-290: free(ident), close, fclose, return EXIT_SUCCESS.
\* Without -v ident was never assigned: free() of it is undefined, the
\* process may die there or go on.
Cleanup ==
    /\ pc = "cleanup"
    /\ released' = IF ident = "uninit" THEN "unassigned" ELSE "assigned"
    /\ \E dies \in {FALSE, ident = "uninit"} :
        IF dies
        THEN /\ pc' = "crashed"
             /\ UNCHANGED <<ident, serial, input, exit_status>>
        ELSE /\ ident' = "freed"
             /\ serial' = "closed"
             /\ input' = "closed"
             /\ exit_status' = EXIT_SUCCESS
             /\ pc' = "exit"
    /\ UNCHANGED <<filename, verbose, bufsize, chunksize, fbufsize, buffree,
                   buffer, dbuf, diag>>
    /\ UNCHANGED <<envVars, histVars>>
    /\ UNCHANGED <<storeIdx, unreported, cmdShort, chan, failedReads, fed>>

Next ==
    \/ OpenFile \/ OpenPort
    \/ PowerOn \/ Reset \/ QueryCap \/ ReadCap
    \/ IdentQuery \/ ReadIdent
    \/ ExtraQuery1 \/ ExtraQuery2 \/ BeginData
    \/ LoopTest \/ Fread \/ PollTest \/ PollDelay \/ PollQuery \/ PollRead
    \/ WriteChunk
    \/ PowerOff \/ Cleanup
    \/ Drain

Spec == Init /\ [][Next]_vars

\* the steps of the program
HostNext ==
    \/ OpenFile \/ OpenPort
    \/ PowerOn \/ Reset \/ QueryCap \/ ReadCap
    \/ IdentQuery \/ ReadIdent
    \/ ExtraQuery1 \/ ExtraQuery2 \/ BeginData
    \/ LoopTest \/ Fread \/ PollTest \/ PollDelay \/ PollQuery \/ PollRead
    \/ WriteChunk
    \/ PowerOff \/ Cleanup

\* a step of the program on a line without faults
SoundHostNext == HostNext /\ faults' = faults

\* The runs on a line without faults: every write is accepted whole and
\* every query is answered with a well-formed field.  The program is a
\* running process, so it takes its next step whenever it has one; the
\* plotter keeps taking bytes out of its buffer while there are any.
LiveSpec ==
    /\ Init
    /\ [][SoundHostNext \/ Drain]_vars
    /\ WF_vars(SoundHostNext)
    /\ WF_vars(Drain)

(* --------------------------- a lone field read ------------------------ *)
\* read_dec or read_asc called on a line that holds given bytes
Ks == (0..MaxK) \cup {9999}

\* the bytes that follow the field on the line
Suffixes == { <<>>, <<"5">>, <<"5", DEVCOM_TERM>> }

Zeros(n) == [i \in 1..n |-> "0"]

FieldInputs ==
    { Dec(k) \o <<DEVCOM_TERM>> \o suf : k \in Ks, suf \in Suffixes }
    \cup { g \o <<DEVCOM_TERM>> : g \in Garbled }
    \cup { Zeros(n) \o <<DEVCOM_TERM>> :
             n \in (READBUFSIZE - 1)..(READBUFSIZE + MaxOver) }
    \cup { <<"4">> }

\* one tag for each terminated response among the bytes
TagsFor(bytes) ==
    LET n == Cardinality({i \in 1..Len(bytes) : bytes[i] = DEVCOM_TERM})
    IN  [i \in 1..n |-> [cmd |-> "B", fresh |-> TRUE, genuine |-> TRUE]]

FieldInit ==
    /\ pc \in {"read_dec", "read_asc"}
    /\ rx \in FieldInputs
    /\ fed = rx
    /\ rxTags = TagsFor(rx)
    /\ filename = "NULL" /\ verbose = FALSE
    /\ input = "open" /\ serial = "open"
    /\ bufsize = 0 /\ chunksize = 0 /\ fbufsize = 0 /\ buffree = 0
    /\ ident = "uninit" /\ buffer = <<>> /\ dbuf = <<>>
    /\ exit_status = -1 /\ diag = FALSE
    /\ file = <<>> /\ fpos = 0 /\ eof = FALSE
    /\ devCap = 0 /\ devUsed = 0
    /\ lastTag = NoTag /\ lastField = <<>> /\ lastRet = 0
    /\ polls = 0 /\ delayed = FALSE
    /\ sent = <<>> /\ written = <<>> /\ lastFree = 0
    /\ events = <<>> /\ capRead = FALSE /\ garbled = FALSE /\ faults = 0
    /\ storeIdx = -1 /\ unreported = FALSE /\ cmdShort = FALSE
    /\ released = "none"
    /\ chan = "up" /\ failedReads = 0

\* what a lone field read leaves alone
FieldRest == <<filename, verbose, input, serial, bufsize, chunksize, fbufsize,
               buffree, buffer, exit_status, diag, file, fpos, eof, devCap,
               devUsed, polls, delayed, sent, written, lastFree, events,
               capRead, garbled, faults, unreported, cmdShort, released, fed>>

\* read_dec lines 103-110, read_asc lines 130-137: read(2) gives a byte
\* that is not the terminator
FieldReadByte ==
    /\ pc \in {"read_dec", "read_asc"}
    /\ FieldByte
    /\ AfterStore(pc)
    /\ UNCHANGED <<ident, lastField, lastTag, rxTags, lastRet, chan, failedReads>>
    /\ UNCHANGED FieldRest

\* read_dec lines 105-107, read_asc lines 132-134: the terminator is read
\* and the function returns
FieldReadEnd ==
    /\ pc \in {"read_dec", "read_asc"}
    /\ FieldEnd
    /\ IF pc = "read_dec"
       THEN /\ lastRet' = read_dec(dbuf)
            /\ UNCHANGED ident
            /\ AfterStore("returned_dec")
       ELSE /\ ident' = dbuf
            /\ UNCHANGED lastRet
            /\ AfterStore("returned_asc")
    /\ UNCHANGED <<chan, failedReads>>
    /\ UNCHANGED FieldRest

\* the line fails or the peer hangs up: from now on read(2) returns <= 0
LineDown ==
    /\ pc \in {"read_dec", "read_asc"}
    /\ chan = "up"
    /\ chan' = "down"
    /\ UNCHANGED <<pc, ident, dbuf, rx, rxTags, lastField, lastTag, lastRet,
                   storeIdx, failedReads>>
    /\ UNCHANGED FieldRest

\* read_dec lines 102-104, read_asc lines 129-131: read(2) returns <= 0,
\* the for loop has nothing to do and while(1) calls read(2) again
FieldReadFails ==
    /\ pc \in {"read_dec", "read_asc"}
    /\ chan = "down"
    /\ failedReads' = Min(failedReads + 1, MaxFailedReads)
    /\ UNCHANGED <<pc, ident, dbuf, rx, rxTags, lastField, lastTag, lastRet,
                   storeIdx, chan>>
    /\ UNCHANGED FieldRest

FieldNext == FieldReadByte \/ FieldReadEnd \/ LineDown \/ FieldReadFails

FieldSpec == FieldInit /\ [][FieldNext]_vars

(* ------------------------------ properties ---------------------------- *)
\* the statements of the transfer loop, lines 260-276
LoopPcs == {"loop_test", "fread", "poll_test", "poll_delay", "poll_query",
            "poll_read", "write_chunk"}

\* the transfer loop has been left through its test (line 260)
SpoolDone ==
    \/ pc \in {"power_off", "cleanup", "crashed"}
    \/ pc = "exit" /\ exit_status = EXIT_SUCCESS

\* C1: with a line without faults, the plotter has room for every data
\* chunk at the moment it is written: the byte count of the write is at
\* most the free space of the receive buffer.
C1_NeverOverrun ==
    (faults = 0 /\ sent # <<>>) => sent[Len(sent)] <= lastFree

\* C2: with a line without faults, the reading that releases a chunk is the
\* response to a buffer query ESC.B sent in the same chunk iteration, and
\* it answers the most recently sent query.
C2_ReadingIsFresh ==
    (faults = 0 /\ pc = "write_chunk") =>
        (lastTag.cmd = "B" /\ lastTag.fresh /\ lastTag.latest)

\* C3: a chunk is released only after at least one delay-query-read round
\* of its own iteration, and the last free-space read returned a value that
\* is at least the byte count of the chunk.
C3_ReleaseAfterSufficientRead ==
    pc = "write_chunk" => (polls >= 1 /\ lastRet >= fbufsize)

\* C3 witness: a chunk of two bytes released after more than one round.
C3_Witness ==
    pc = "write_chunk" /\ fbufsize = 2 /\ polls = 2 /\ lastRet > 2

\* C4: the data writes carry the input bytes in input order, every write is
\* at most the chunk size, only the last write may be shorter, and when the
\* loop is left the whole input has been written.
C4_InputWrittenInOrder ==
    /\ Len(written) <= Len(file)
    /\ written = SubSeq(file, 1, Len(written))
    /\ \A i \in 1..Len(sent) : sent[i] <= chunksize
    /\ \A i \in 1..(Len(sent) - 1) : sent[i] = chunksize
    /\ SpoolDone => written = file

\* C4 witness: three bytes sent as a full chunk of two and a short last one.
C4_Witness ==
    SpoolDone /\ Len(file) = 3 /\ sent = <<2, 1>> /\ written = <<1, 2, 3>>

\* C5: the chunk size is half the capacity the capacity query returned,
\* rounded down; once computed it never changes; no data write is larger.
C5_ChunkSizeIsHalfCapacity ==
    /\ [](/\ capRead => chunksize = bufsize \div 2
          /\ (capRead /\ faults = 0) => chunksize = devCap \div 2
          /\ \A i \in 1..Len(sent) : sent[i] <= bufsize \div 2)
    /\ [][capRead => chunksize' = chunksize]_vars

\* C5 witness: capacity 4 read, chunks of 2 written.
C5_Witness ==
    capRead /\ bufsize = 4 /\ chunksize = 2 /\ Len(sent) >= 2 /\ sent[1] = 2

\* C6: with a line without faults and a chunk that is not empty, the
\* spooler goes round the poll loop again only when the value the last poll
\* reported is below the byte count of the chunk; a reported value equal to
\* the byte count releases the chunk.
C6_ReleaseAtEqual ==
    (faults = 0 /\ fbufsize > 0 /\ pc = "poll_delay" /\ polls >= 1) =>
        lastRet < fbufsize

\* C7: no data write is made for a read that yields 0 bytes: with a line
\* without faults and a chunk size above 0 every data write carries at
\* least one byte.
C7_NoEmptyWrite ==
    (faults = 0 /\ chunksize > 0) => \A i \in 1..Len(sent) : sent[i] > 0

\* C8: when the plotter reports a capacity of 0 or 1 over a line without
\* faults, so that the chunk size is 0, the transfer loop is not entered.
C8_TooSmallRejected ==
    (faults = 0 /\ capRead /\ chunksize = 0) => pc \notin LoopPcs

\* C9: a numeric field with a byte that is not a digit is not turned into a
\* value the program goes on with: after such a field the run has ended
\* with failure.
C9_MalformedRejected ==
    (lastTag.cmd \in {"L", "B"} /\ ~IsDecimal(lastField)) =>
        (pc = "exit" /\ exit_status = EXIT_FAILURE)

IsProtocolEvent(e) == e \in {"(", "R", "cap", "U", "D", ")"}

\* C10: the protocol events come in the order power-on, reset, capacity
\* query and capacity read, begin-data, data chunks, power-off; begin-data
\* and power-off are sent once, power-off after the last data chunk and
\* before a successful exit.
C10_ProtocolOrder ==
    LET ev  == SelectSeq(events, IsProtocolEvent)
        pre == <<"(", "R", "cap", "U">>
        n   == Len(ev)
    IN  /\ IF n <= 4 THEN ev = SubSeq(pre, 1, n)
           ELSE /\ SubSeq(ev, 1, 4) = pre
                /\ \A i \in 5..n : ev[i] = "D" \/ (i = n /\ ev[i] = ")")
        /\ capRead => (events[3] = "L" /\ events[4] = "cap")
        /\ (sent # <<>>) => (n > 4 /\ capRead)
        /\ (pc = "exit" /\ exit_status = EXIT_SUCCESS) => ev[n] = ")"
        /\ (n > 0 /\ ev[n] = ")") => pc \in {"cleanup", "exit", "crashed"}

\* C10 witness: a successful run with two data chunks.
C10_Witness ==
    pc = "exit" /\ exit_status = EXIT_SUCCESS /\ Len(sent) = 2 /\ sent[2] > 0

\* C11: read_dec fed the decimal digits of k, the terminator and further
\* bytes returns k, has consumed the digits and the terminator, has kept the
\* terminator out of the decoded field and leaves the further bytes unread.
C11_DecRoundTrip ==
    \A k \in Ks : \A suf \in Suffixes :
        (pc = "returned_dec" /\ fed = Dec(k) \o <<DEVCOM_TERM>> \o suf) =>
            (lastRet = k /\ lastField = Dec(k) /\ rx = suf)

\* C11 witness: 9999 decoded with a further response left on the line.
C11_Witness ==
    /\ pc = "returned_dec"
    /\ fed = <<"9", "9", "9", "9", DEVCOM_TERM, "5", DEVCOM_TERM>>
    /\ lastRet = 9999
    /\ rx = <<"5", DEVCOM_TERM>>

\* C12: when the input file or the serial port cannot be opened, or the
\* port cannot be configured, the run has ended with a nonzero status and
\* no command has been written; status 0 is returned only after the whole
\* input and the power-off command have been written.
C12_FailBeforeProtocol ==
    /\ (pc # "open_file" /\ input = "unopened") =>
           (pc = "exit" /\ exit_status = EXIT_FAILURE /\ events = <<>>)
    /\ (pc \notin {"open_file", "open_port"} /\ serial # "open"
        /\ exit_status # EXIT_SUCCESS) =>
           (pc = "exit" /\ exit_status = EXIT_FAILURE /\ events = <<>>)
    /\ exit_status = EXIT_FAILURE => (events = <<>> /\ sent = <<>>)
    /\ exit_status = EXIT_SUCCESS =>
           (events # <<>> /\ events[Len(events)] = ")" /\ written = file)

\* C12 witness: the named file was opened, the port could not be configured.
C12_Witness ==
    /\ pc = "exit" /\ exit_status = EXIT_FAILURE
    /\ filename = "file" /\ input = "closed" /\ serial = "closed"

\* the program has ended: main has returned or the process has died
Exited == pc \in {"exit", "crashed"}

\* C13: when the program has ended, the input file it opened is closed and
\* the serial descriptor it opened is closed.
C13_ResourcesReleased ==
    Exited => (/\ serial # "open"
               /\ filename # "NULL" => input # "open")

\* C15: every buffer query of the poll loop is written with a pacing delay
\* just before it, and the read that follows it, before anything else is
\* written, consumes the response to that query.
C15_PacedQueryOwnResponse ==
    /\ pc = "poll_query" => delayed
    /\ (faults = 0 /\ pc = "poll_test" /\ polls >= 1) =>
           (lastTag.cmd = "B" /\ lastTag.latest)

\* C16 as stated: every write that is accepted short, of a command or of a
\* data chunk, gets its diagnostic, and the run does not end in failure.
C16_EveryShortWriteReported ==
    /\ cmdShort => diag
    /\ ~unreported
    /\ (cmdShort \/ unreported) => exit_status # EXIT_FAILURE

\* C16 amended: a command written through serial_write and accepted short
\* gets the diagnostic, and only such a write does: a data chunk accepted
\* short prints none; in both cases the run goes on and does not end in
\* failure.
C16_CommandShortWriteReported ==
    /\ cmdShort <=> diag
    /\ (unreported /\ ~cmdShort) => ~diag
    /\ (cmdShort \/ unreported) => exit_status # EXIT_FAILURE

\* C16 witness: a command was accepted short, the diagnostic was printed and
\* the run went on to a successful end.
C16_Witness ==
    cmdShort /\ diag /\ pc = "exit" /\ exit_status = EXIT_SUCCESS /\ sent # <<>>

\* C19: the identification query is written only in a verbose run, and
\* free(ident) is never applied to an identification string that was never
\* assigned.
C19_IdentOnlyWhenObtained ==
    /\ (\E i \in 1..Len(events) : events[i] = "A") => verbose
    /\ released # "unassigned"

\* C14: once a read from the channel has failed, the field read is over: it
\* is not still waiting for a terminator.
C14_StopsOnChannelError ==
    failedReads >= 1 => pc \notin {"read_dec", "read_asc"}

\* C18: every store into the decode buffer, the closing NUL included, is at
\* an index below READBUFSIZE.
C18_StoreInBounds == storeIdx < READBUFSIZE

\* the run ended before the protocol began: a file or the port did not open
OpenFailed == pc = "exit" /\ exit_status = EXIT_FAILURE

\* C17: with a capacity above 1, a line without faults and a plotter that
\* keeps draining, a run that opens its file and port gets to the end: the
\* whole input is written, power-off is written and the program exits with
\* success.
C17_SpoolCompletes ==
    (devCap > 1) =>
        <>(\/ OpenFailed
           \/ /\ pc = "exit" /\ exit_status = EXIT_SUCCESS
              /\ written = file
              /\ events # <<>> /\ events[Len(events)] = ")")

====
